---- MODULE Spec2Model ----
(***************************************************************************)
(* A model of the obv_lexer tokenizer (src/lexer/core.rs).                 *)
(*                                                                         *)
(* The input is a sequence of Unicode code points; `position` is a BYTE    *)
(* offset into its UTF-8 encoding, as in the Rust code.  The regular       *)
(* expressions of core.rs are modelled by what the regex crate computes    *)
(* for them: each XXX_RE(s) yields the number of characters of the match   *)
(* found at the start of slice s, and 0 when `find` returns None (no       *)
(* pattern of the lexer matches the empty string).                         *)
(***************************************************************************)
EXTENDS Integers, Sequences, FiniteSets, TLC

VARIABLES
    input,      \* Lexer.input, as code points
    position,   \* Lexer.position, a byte offset
    tokens,     \* the vector `tokens` of tokenize_all
    pc,         \* the place of the program
    result,     \* the value the last call of tokenize_all returned
    calls,      \* the number of calls of tokenize_all
    twin,       \* a second input, scanned by a Lexer of its own
    twinResult, \* the value tokenize_all returned for twin
    lexemes,    \* the number of lexemes of input and twin
    expected    \* the tokens of the lexemes the source text was written from

vars == <<input, position, tokens, pc, result, calls, twin, twinResult, lexemes,
          expected>>

pair == <<twin, twinResult, lexemes, expected>>

(***************************************************************************)
(* Bounds of the model.                                                    *)
(***************************************************************************)
\* the generated inputs are concatenations of at most MaxChunks chunks
MaxChunks == 3
\* number of tokenize_all calls made on one Lexer
MaxCalls == 2
\* number of lexemes of the paired inputs of the trivia specification
MaxLexemes == 2
\* the inputs of the fair specification are concatenations of at most
\* MaxLiveChunks chunks
MaxLiveChunks == 2

(***************************************************************************)
(* UTF-8 and slicing                                                       *)
(***************************************************************************)
\* char::len_utf8: the number of bytes of the encoding of code point c
len_utf8(c) ==
    IF c < 128 THEN 1 ELSE IF c < 2048 THEN 2 ELSE IF c < 65536 THEN 3 ELSE 4

RECURSIVE ByteLen(_)
\* str::len: the length in bytes of the encoding of the characters s
ByteLen(s) == IF s = <<>> THEN 0 ELSE len_utf8(Head(s)) + ByteLen(Tail(s))

RECURSIVE is_char_boundary(_, _)
\* str::is_char_boundary: byte offset p starts a character of s or ends s
is_char_boundary(s, p) ==
    \/ p = 0
    \/ /\ s # <<>>
       /\ p >= len_utf8(Head(s))
       /\ is_char_boundary(Tail(s), p - len_utf8(Head(s)))

RECURSIVE SliceFrom(_, _)
\* &input[p..]: the characters of s from byte offset p on (p on a boundary)
SliceFrom(s, p) ==
    IF p = 0 THEN s ELSE SliceFrom(Tail(s), p - len_utf8(Head(s)))

\* the end of a match counted in characters (chars().count()) and not in bytes
MatEnd_Chars(s, n) == n

\* mat.end(): the byte length of a match of n characters at the start of s
MatEnd(s, n) == ByteLen(SubSeq(s, 1, n))

\* mat.as_str(): the text of a match of n characters at the start of s
MatStr(s, n) == SubSeq(s, 1, n)

Max(S) == CHOOSE n \in S : \A m \in S : m <= n

Min(S) == CHOOSE n \in S : \A m \in S : n <= m

(***************************************************************************)
(* Character classes of the regex crate (Unicode mode is its default).     *)
(***************************************************************************)
\* [0-9]
IsAsciiDigit(c) == c \in 48..57

\* [a-zA-Z_]
IsIdentStart(c) == c \in 65..90 \/ c \in 97..122 \/ c = 95

\* \w restricted to the ASCII range: [0-9A-Za-z_]
IsAsciiWord(c) == IsAsciiDigit(c) \/ IsIdentStart(c)

\* \w: the Unicode word class.  Beyond ASCII the table is the part of the
\* class up to U+02C1 (Latin letters) and the Arabic-Indic digits.
IsWordChar(c) ==
    \/ IsAsciiWord(c)
    \/ c \in {170, 181, 186}
    \/ c \in 192..214 \/ c \in 216..246 \/ c \in 248..705
    \/ c \in 1632..1641

\* \s: the Unicode White_Space property
IsWhitespace(c) ==
    \/ c \in 9..13 \/ c = 32 \/ c = 133 \/ c = 160 \/ c = 5760
    \/ c \in 8192..8202 \/ c \in {8232, 8233, 8239, 8287, 12288}

\* . (without the s flag): any character but the line feed
IsDot(c) == c # 10

\* the character s[i] is a word character (FALSE outside the slice)
IsWordAt(s, i) == i \in 1..Len(s) /\ IsWordChar(s[i])

\* \b after the first n characters of the slice
WordBoundary(s, n) == IsWordAt(s, n) # IsWordAt(s, n + 1)

(***************************************************************************)
(* The pattern table (lazy_static block of core.rs)                        *)
(***************************************************************************)
\* IDENTIFIER_RE with the keywords as alternatives tried first:
\* \A(int|void|return|[a-zA-Z_]\w*\b)
IDENTIFIER_RE_KeywordFirst(s) ==
    LET kw == {n \in 1..Len(s) :
                  SubSeq(s, 1, n) \in {<<105, 110, 116>>, <<118, 111, 105, 100>>,
                                       <<114, 101, 116, 117, 114, 110>>}}
        cands == {n \in 1..Len(s) : /\ IsIdentStart(s[1])
                                    /\ \A i \in 2..n : IsWordChar(s[i])
                                    /\ WordBoundary(s, n)}
    IN  IF kw # {} THEN Min(kw) ELSE IF cands = {} THEN 0 ELSE Max(cands)

\* \A[a-zA-Z_]\w*\b : greedy, the longest candidate that ends at a boundary
IDENTIFIER_RE(s) ==
    LET cands == {n \in 1..Len(s) : /\ IsIdentStart(s[1])
                                    /\ \A i \in 2..n : IsWordChar(s[i])
                                    /\ WordBoundary(s, n)}
    IN  IF cands = {} THEN 0 ELSE Max(cands)

\* CONSTANT_RE without its trailing \b: \A[0-9]+
CONSTANT_RE_NoBoundary(s) ==
    LET cands == {n \in 1..Len(s) : \A i \in 1..n : IsAsciiDigit(s[i])}
    IN  IF cands = {} THEN 0 ELSE Max(cands)

\* \A[0-9]+\b
CONSTANT_RE(s) ==
    LET cands == {n \in 1..Len(s) : /\ \A i \in 1..n : IsAsciiDigit(s[i])
                                    /\ WordBoundary(s, n)}
    IN  IF cands = {} THEN 0 ELSE Max(cands)

\* the pattern with a repetition, \A\(+ : a run of parentheses is one match
OPEN_PAREN_RE_Run(s) ==
    Max({n \in 0..Len(s) : \A i \in 1..n : s[i] = 40})

\* \A\(
OPEN_PAREN_RE(s) == IF Len(s) >= 1 /\ s[1] = 40 THEN 1 ELSE 0

\* \A\)
CLOSE_PAREN_RE(s) == IF Len(s) >= 1 /\ s[1] = 41 THEN 1 ELSE 0

\* the pattern written with a bracket: \A\[
OPEN_BRACE_RE_Bracket(s) == IF Len(s) >= 1 /\ s[1] = 91 THEN 1 ELSE 0

\* \A\{
OPEN_BRACE_RE(s) == IF Len(s) >= 1 /\ s[1] = 123 THEN 1 ELSE 0

\* \A\}
CLOSE_BRACE_RE(s) == IF Len(s) >= 1 /\ s[1] = 125 THEN 1 ELSE 0

\* \A;
SEMICOLON_RE(s) == IF Len(s) >= 1 /\ s[1] = 59 THEN 1 ELSE 0

\* \A\s+
WHITESPACE_RE(s) ==
    LET cands == {n \in 1..Len(s) : \A i \in 1..n : IsWhitespace(s[i])}
    IN  IF cands = {} THEN 0 ELSE Max(cands)

\* the pattern with the s flag, \A(?s)//.* : the dot matches line feeds too
SINGLE_LINE_COMMENTS_RE_DotAll(s) ==
    IF Len(s) >= 2 /\ s[1] = 47 /\ s[2] = 47 THEN Len(s) ELSE 0

\* \A//.*
SINGLE_LINE_COMMENTS_RE(s) ==
    IF Len(s) >= 2 /\ s[1] = 47 /\ s[2] = 47
    THEN Max({n \in 2..Len(s) : \A i \in 3..n : IsDot(s[i])})
    ELSE 0

\* MULTI_LINE_COMMENTS_RE with a greedy .* : the longest candidate
MULTI_LINE_COMMENTS_RE_Greedy(s) ==
    LET cands == {n \in 4..Len(s) : /\ s[1] = 47 /\ s[2] = 42
                                    /\ s[n - 1] = 42 /\ s[n] = 47}
    IN  IF cands = {} THEN 0 ELSE Max(cands)

\* \A(?s)/\*.*?\*/ : non-greedy, the shortest candidate that ends in */
MULTI_LINE_COMMENTS_RE(s) ==
    LET cands == {n \in 4..Len(s) : /\ s[1] = 47 /\ s[2] = 42
                                    /\ s[n - 1] = 42 /\ s[n] = 47}
    IN  IF cands = {} THEN 0 ELSE Min(cands)

(***************************************************************************)
(* Tokens and errors (token.rs, error.rs)                                  *)
(***************************************************************************)
\* a Token: the variant, the String of Identifier, the i32 of Constant
Token(type, text, value) == [type |-> type, text |-> text, value |-> value]

KwInt == Token("KwInt", <<>>, 0)

KwVoid == Token("KwVoid", <<>>, 0)

KwReturn == Token("KwReturn", <<>>, 0)

Identifier(text) == Token("Identifier", text, 0)

Constant(value) == Token("Constant", <<>>, value)

OpenParen == Token("OpenParen", <<>>, 0)

CloseParen == Token("CloseParen", <<>>, 0)

OpenBrace == Token("OpenBrace", <<>>, 0)

CloseBrace == Token("CloseBrace", <<>>, 0)

Semicolon == Token("Semicolon", <<>>, 0)

\* a LexerError: the variant and its fields (char is a code point, 0 when
\* the variant has none)
LexerError(kind, char, value, pos) ==
    [kind |-> kind, char |-> char, value |-> value, pos |-> pos]

UnexpectedCharacter(char, pos) == LexerError("UnexpectedCharacter", char, <<>>, pos)

InvalidInteger(value, pos) == LexerError("InvalidInteger", 0, value, pos)

NoMatch(pos) == LexerError("NoMatch", 0, <<>>, pos)

\* the keyword table: spelling and token, in the order of the array
KEYWORDS ==
    << <<(<<105, 110, 116>>), KwInt>>,
       <<(<<118, 111, 105, 100>>), KwVoid>>,
       <<(<<114, 101, 116, 117, 114, 110>>), KwReturn>> >>

\* the keyword loop comparing with != in place of ==: no spelling is a hit
KeywordOrIdentifier_NoHit(val) == Identifier(val)

\* the for loop over KEYWORDS: the token of the first entry equal to val,
\* Identifier(val) when the loop ends without a hit
KeywordOrIdentifier(val) ==
    LET hits == {i \in 1..Len(KEYWORDS) : KEYWORDS[i][1] = val}
    IN  IF hits = {} THEN Identifier(val) ELSE KEYWORDS[Min(hits)][2]

(***************************************************************************)
(* str::parse::<i32> on a run of ASCII digits: accumulate with checked_mul *)
(* and checked_add; None of either is the error.                           *)
(***************************************************************************)
I32_MAX == 2147483647

RECURSIVE ParseDigits(_, _)
\* acc is the value of the digits read so far; -1 stands for Err
ParseDigits(acc, digits) ==
    IF digits = <<>> THEN acc
    ELSE LET d == Head(digits) - 48
         IN  IF acc > I32_MAX \div 10 THEN -1
             ELSE IF acc * 10 > I32_MAX - d THEN -1
             ELSE ParseDigits(acc * 10 + d, Tail(digits))

\* a parse that rejects i32::MAX itself (>= where > is meant)
parse_i32_OffByOne(val_str) ==
    LET v == ParseDigits(0, val_str)
    IN  [ok |-> v >= 0 /\ v < I32_MAX, value |-> IF v >= 0 /\ v < I32_MAX THEN v ELSE 0]

\* a parse that tests the number of digits: more than ten is an error
parse_i32_DigitCount(val_str) ==
    LET v == ParseDigits(0, val_str)
    IN  [ok    |-> v >= 0 /\ Len(val_str) <= 10,
         value |-> IF v >= 0 /\ Len(val_str) <= 10 THEN v ELSE 0]

\* val_str.parse::<i32>(): [ok, value]
parse_i32(val_str) ==
    LET v == ParseDigits(0, val_str)
    IN  [ok |-> v >= 0, value |-> IF v >= 0 THEN v ELSE 0]

(***************************************************************************)
(* Lexer::skip_whitespaces_and_comments: one iteration of its loop on the  *)
(* slice s.  kind names the branch taken and adv is the number of bytes    *)
(* added to position ("break" leaves the loop).                            *)
(***************************************************************************)
\* the loop body with the whitespace pattern written \A\s*: it matches the
\* empty string, so the first branch is taken at every non-empty slice
SkipIteration_EmptyMatch(s) ==
    LET ws == WHITESPACE_RE(s)
    IN  IF s = <<>> THEN [kind |-> "break", adv |-> 0]
        ELSE [kind |-> "whitespace", adv |-> MatEnd(s, ws)]

SkipIteration(s) ==
    LET ws == WHITESPACE_RE(s)
        sl == SINGLE_LINE_COMMENTS_RE(s)
        ml == MULTI_LINE_COMMENTS_RE(s)
    IN  IF s = <<>> THEN [kind |-> "break", adv |-> 0]
        ELSE IF ws > 0 THEN [kind |-> "whitespace", adv |-> MatEnd(s, ws)]
        ELSE IF sl > 0 THEN [kind |-> "single_line", adv |-> MatEnd(s, sl)]
        ELSE IF ml > 0 THEN [kind |-> "multi_line", adv |-> MatEnd(s, ml)]
        ELSE [kind |-> "break", adv |-> 0]

\* the end-of-input test written with > in place of >=
AtEndOfInput_Strict(p, len) == p > len

\* the end-of-input test of next_token_internal: position >= input.len()
AtEndOfInput(p, len) == p >= len

(***************************************************************************)
(* Lexer::next_token_internal, phase 3: no pattern matched the slice s.    *)
(* position is not advanced.  (UnrecognizedInput_Advance is the variant    *)
(* with the commented-out `self.position += first_char.len_utf8()`.)       *)
(***************************************************************************)
UnrecognizedInput_Advance(s, start) ==
    IF s # <<>>
    THEN [adv |-> len_utf8(s[1]),
          res |-> <<"Err", UnexpectedCharacter(s[1], start)>>]
    ELSE [adv |-> 0, res |-> <<"Err", NoMatch(start)>>]

UnrecognizedInput(s, start) ==
    IF s # <<>>
    THEN [adv |-> 0, res |-> <<"Err", UnexpectedCharacter(s[1], start)>>]
    ELSE [adv |-> 0, res |-> <<"Err", NoMatch(start)>>]

(***************************************************************************)
(* Lexer::next_token_internal, the arm of CONSTANT_RE matching k digits of *)
(* the slice s: position is advanced by mat.end() first, then the text is  *)
(* parsed, so the cursor is behind the digits whatever the parse returns.  *)
(***************************************************************************)
\* the arm parsing first and advancing only when the parse is Ok
MatchedConstant_ParseFirst(s, start, k) ==
    LET val_str == MatStr(s, k)
        parsed  == parse_i32(val_str)
    IN  IF parsed.ok
        THEN [adv |-> MatEnd(s, k), res |-> <<"Ok", Constant(parsed.value)>>]
        ELSE [adv |-> 0, res |-> <<"Err", InvalidInteger(val_str, start)>>]

MatchedConstant(s, start, k) ==
    LET val_str == MatStr(s, k)
        parsed  == parse_i32(val_str)
    IN  [adv |-> MatEnd(s, k),
         res |-> IF parsed.ok
                 THEN <<"Ok", Constant(parsed.value)>>
                 ELSE <<"Err", InvalidInteger(val_str, start)>>]

(***************************************************************************)
(* Lexer::next_token_internal, phases 2 and 3, on the slice s that starts  *)
(* at byte offset start: res is <<"Ok", token>> or <<"Err", error>> and    *)
(* adv is the number of bytes added to position.                           *)
(***************************************************************************)
Recognize(s, start) ==
    IF OPEN_PAREN_RE(s) > 0
    THEN [adv |-> MatEnd(s, OPEN_PAREN_RE(s)), res |-> <<"Ok", OpenParen>>]
    ELSE IF CLOSE_PAREN_RE(s) > 0
    THEN [adv |-> MatEnd(s, CLOSE_PAREN_RE(s)), res |-> <<"Ok", CloseParen>>]
    ELSE IF OPEN_BRACE_RE(s) > 0
    THEN [adv |-> MatEnd(s, OPEN_BRACE_RE(s)), res |-> <<"Ok", OpenBrace>>]
    ELSE IF CLOSE_BRACE_RE(s) > 0
    THEN [adv |-> MatEnd(s, CLOSE_BRACE_RE(s)), res |-> <<"Ok", CloseBrace>>]
    ELSE IF SEMICOLON_RE(s) > 0
    THEN [adv |-> MatEnd(s, SEMICOLON_RE(s)), res |-> <<"Ok", Semicolon>>]
    ELSE LET id == IDENTIFIER_RE(s) IN IF id > 0
    THEN [adv |-> MatEnd(s, id),
          res |-> <<"Ok", KeywordOrIdentifier(MatStr(s, id))>>]
    ELSE LET k == CONSTANT_RE(s) IN IF k > 0
    THEN MatchedConstant(s, start, k)
    ELSE UnrecognizedInput(s, start)

(***************************************************************************)
(* Lexer::tokenize_all: the match on one Some(token_result).  Yields the   *)
(* vector, the place the call continues at and the value it returns;       *)
(* prev is kept as the returned value while the call goes on.              *)
(***************************************************************************)
\* the Err arm leaving the loop with break: Ok(tokens) follows
OnTokenResult_Break(toks, res, prev) ==
    IF res[1] = "Ok"
    THEN [pc |-> "skip", tokens |-> Append(toks, res[2]), result |-> prev]
    ELSE [pc |-> "returned", tokens |-> toks, result |-> <<"Ok", toks>>]

OnTokenResult(toks, res, prev) ==
    IF res[1] = "Ok"
    THEN [pc |-> "skip", tokens |-> Append(toks, res[2]), result |-> prev]
    ELSE [pc |-> "returned", tokens |-> toks, result |-> <<"Err", res[2]>>]

(***************************************************************************)
(* The whole scan as a function of the input: the loop of tokenize_all     *)
(* from position p with the tokens toks collected so far.                  *)
(***************************************************************************)
RECURSIVE skip_whitespaces_and_comments(_, _)
\* the position at which the skipper returns
skip_whitespaces_and_comments(inp, p) ==
    LET it == SkipIteration(SliceFrom(inp, p))
    IN  IF it.kind = "break" THEN p
        ELSE skip_whitespaces_and_comments(inp, p + it.adv)

RECURSIVE ScanFrom(_, _, _)
ScanFrom(inp, p, toks) ==
    LET q == skip_whitespaces_and_comments(inp, p)
    IN  IF AtEndOfInput(q, ByteLen(inp)) THEN <<"Ok", toks>>
        ELSE LET r    == Recognize(SliceFrom(inp, q), q)
                 next == OnTokenResult(toks, r.res, <<"None">>)
             IN  IF next.pc = "skip"
                 THEN ScanFrom(inp, q + r.adv, next.tokens)
                 ELSE next.result

\* Lexer::new(inp).tokenize_all()
Tokenize(inp) == ScanFrom(inp, 0, <<>>)

(***************************************************************************)
(* The inputs of the model: every concatenation of at most MaxChunks       *)
(* chunks, and the examples of the documentation.                          *)
(***************************************************************************)
Chunks ==
    { <<105, 110, 116>>,                      \* int
      <<120>>,                                \* x
      <<95>>,                                 \* _
      <<55>>,                                 \* 7
      <<50, 49, 52, 55, 52, 56, 51, 54, 52, 55>>, \* 2147483647
      <<32>>,                                 \* space
      <<10>>,                                 \* line feed
      <<47, 47>>,                             \* //
      <<47, 42>>,                             \* /*
      <<42, 47>>,                             \* */
      <<40>>,                                 \* (
      <<233>>,                                \* U+00E9, a letter, 2 bytes
      <<8364>> }                              \* U+20AC, a symbol, 3 bytes

ExampleInputs ==
    { \* int main ( ) { return 0 ; }
      <<105, 110, 116, 32, 109, 97, 105, 110, 32, 40, 32, 41, 32, 123, 32,
        114, 101, 116, 117, 114, 110, 32, 48, 32, 59, 32, 125>>,
      \* int/*c*/ main ( )//line\n{ return 0 ; }
      <<105, 110, 116, 47, 42, 99, 42, 47, 32, 109, 97, 105, 110, 32, 40, 32,
        41, 47, 47, 108, 105, 110, 101, 10, 123, 32, 114, 101, 116, 117, 114,
        110, 32, 48, 32, 59, 32, 125>>,
      \* main () { return 0; }
      <<109, 97, 105, 110, 32, 40, 41, 32, 123, 32, 114, 101, 116, 117, 114,
        110, 32, 48, 59, 32, 125>>,
      \* void
      <<118, 111, 105, 100>>,
      \* void_
      <<118, 111, 105, 100, 95>>,
      \* return1
      <<114, 101, 116, 117, 114, 110, 49>>,
      \* 123bar
      <<49, 50, 51, 98, 97, 114>>,
      \* 99999999999
      <<57, 57, 57, 57, 57, 57, 57, 57, 57, 57, 57>>,
      \* 00000000000007
      <<48, 48, 48, 48, 48, 48, 48, 48, 48, 48, 48, 48, 48, 55>>,
      \* /* never closed
      <<47, 42, 32, 110, 101, 118, 101, 114, 32, 99, 108, 111, 115, 101, 100>>,
      \* /*/
      <<47, 42, 47>>,
      \* return 7;
      <<114, 101, 116, 117, 114, 110, 32, 55, 59>>,
      \* $
      <<36>>,
      \* int $ x
      <<105, 110, 116, 32, 36, 32, 120>>,
      \* 1_
      <<49, 95>>,
      \* _x1 _
      <<95, 120, 49, 32, 95>>,
      \* 2147483648
      <<50, 49, 52, 55, 52, 56, 51, 54, 52, 56>>,
      \* (2147483648
      <<40, 50, 49, 52, 55, 52, 56, 51, 54, 52, 56>>,
      \* x U+0663 (a letter, then a digit of 2 bytes)
      <<120, 1635>>,
      \* 7 U+0663
      <<55, 1635>>,
      \* x U+00A0 ( (a space of 2 bytes)
      <<120, 160, 40>>,
      \* /* a /* b */ c */
      <<47, 42, 32, 97, 32, 47, 42, 32, 98, 32, 42, 47, 32, 99, 32, 42, 47>>,
      \* /**/
      <<47, 42, 42, 47>>,
      \* /*/ x
      <<47, 42, 47, 32, 120>>,
      \* -7
      <<45, 55>>,
      \* return -1;
      <<114, 101, 116, 117, 114, 110, 32, 45, 49, 59>>,
      \* 0002147483647
      <<48, 48, 48, 50, 49, 52, 55, 52, 56, 51, 54, 52, 55>>,
      \* 0002147483648
      <<48, 48, 48, 50, 49, 52, 55, 52, 56, 51, 54, 52, 56>> }

RECURSIVE Flatten(_)
Flatten(cs) == IF cs = <<>> THEN <<>> ELSE Head(cs) \o Flatten(Tail(cs))

Inputs ==
    {Flatten(cs) : cs \in UNION {[1..n -> Chunks] : n \in 0..MaxChunks}}
        \cup ExampleInputs

(***************************************************************************)
(* The state machine.  pc is the place of the program:                     *)
(*   "new"      the Lexer is constructed, tokenize_all was not called;     *)
(*   "skip"     at the top of the loop of skip_whitespaces_and_comments;   *)
(*   "match"    the skipper has returned to next_token_internal;           *)
(*   "returned" tokenize_all has returned `result`;                        *)
(*   "panicked" a slice at a byte offset inside a character.               *)
(* tokens is the vector of the running call (kept as it was when the call  *)
(* returned); calls counts the calls of tokenize_all.                      *)
(***************************************************************************)
Init ==
    /\ input \in Inputs
    /\ position = 0
    /\ tokens = <<>>
    /\ pc = "new"
    /\ result = <<"None">>
    /\ calls = 0
    /\ twin = <<>>
    /\ twinResult = <<"None">>
    /\ lexemes = 0
    /\ expected = <<>>

\* a call that rewinds the cursor before it scans
CallTokenizeAll_Rewind ==
    /\ pc \in {"new", "returned"}
    /\ calls < MaxCalls
    /\ calls' = calls + 1
    /\ tokens' = <<>>
    /\ position' = 0
    /\ pc' = "skip"
    /\ UNCHANGED <<input, result, pair>>

\* a call of tokenize_all: let mut tokens = Vec::new(), then the first
\* next_token_internal enters the skipper
CallTokenizeAll ==
    /\ pc \in {"new", "returned"}
    /\ calls < MaxCalls
    /\ calls' = calls + 1
    /\ tokens' = <<>>
    /\ pc' = "skip"
    /\ UNCHANGED <<input, position, result, pair>>

\* the slice the running step works on, and what the loop body of the
\* skipper and the recognizer make of it.  (Each is written as the one
\* element of a set so that the slice is computed once and handed on as a
\* value.)
Rest == CHOOSE r \in {SliceFrom(input, position)} : TRUE

Iteration == CHOOSE it \in {SkipIteration(r) : r \in {Rest}} : TRUE

Recognized == CHOOSE rc \in {Recognize(r, position) : r \in {Rest}} : TRUE

\* an iteration of the skipper loop that matches WHITESPACE_RE
SkipWhitespace ==
    /\ pc = "skip"
    /\ is_char_boundary(input, position)
    /\ \E it \in {Iteration} :
          /\ it.kind = "whitespace"
          /\ position' = position + it.adv
    /\ UNCHANGED <<input, tokens, pc, result, calls, pair>>

\* an iteration of the skipper loop that matches SINGLE_LINE_COMMENTS_RE
SkipSingleLineComment ==
    /\ pc = "skip"
    /\ is_char_boundary(input, position)
    /\ \E it \in {Iteration} :
          /\ it.kind = "single_line"
          /\ position' = position + it.adv
    /\ UNCHANGED <<input, tokens, pc, result, calls, pair>>

\* an iteration of the skipper loop that matches MULTI_LINE_COMMENTS_RE
SkipMultiLineComment ==
    /\ pc = "skip"
    /\ is_char_boundary(input, position)
    /\ \E it \in {Iteration} :
          /\ it.kind = "multi_line"
          /\ position' = position + it.adv
    /\ UNCHANGED <<input, tokens, pc, result, calls, pair>>

\* the skipper loop breaks and the skipper returns
SkipBreak ==
    /\ pc = "skip"
    /\ IF is_char_boundary(input, position)
       THEN /\ Iteration.kind = "break"
            /\ pc' = "match"
       ELSE pc' = "panicked"
    /\ UNCHANGED <<input, position, tokens, result, calls, pair>>

\* next_token_internal returns None: tokenize_all returns Ok(tokens)
EndOfInput ==
    /\ pc = "match"
    /\ AtEndOfInput(position, ByteLen(input))
    /\ result' = <<"Ok", tokens>>
    /\ pc' = "returned"
    /\ UNCHANGED <<input, position, tokens, calls, pair>>

\* next_token_internal returns Some(Ok(token)): the token is pushed and the
\* loop of tokenize_all goes on
PushToken ==
    /\ pc = "match"
    /\ ~AtEndOfInput(position, ByteLen(input))
    /\ \E rc \in {Recognized} :
          /\ rc.res[1] = "Ok"
          /\ position' = position + rc.adv
          /\ \E next \in {OnTokenResult(tokens, rc.res, result)} :
                 tokens' = next.tokens /\ pc' = next.pc /\ result' = next.result
    /\ UNCHANGED <<input, calls, pair>>

\* next_token_internal returns Some(Err(e)): tokenize_all returns Err(e)
ReturnError ==
    /\ pc = "match"
    /\ ~AtEndOfInput(position, ByteLen(input))
    /\ \E rc \in {Recognized} :
          /\ rc.res[1] = "Err"
          /\ position' = position + rc.adv
          /\ \E next \in {OnTokenResult(tokens, rc.res, result)} :
                 tokens' = next.tokens /\ pc' = next.pc /\ result' = next.result
    /\ UNCHANGED <<input, calls, pair>>

Next ==
    \/ CallTokenizeAll
    \/ SkipWhitespace
    \/ SkipSingleLineComment
    \/ SkipMultiLineComment
    \/ SkipBreak
    \/ EndOfInput
    \/ PushToken
    \/ ReturnError

Spec == Init /\ [][Next]_vars

\* the steps taken inside a call of tokenize_all (everything but the call)
ScanStep ==
    \/ SkipWhitespace
    \/ SkipSingleLineComment
    \/ SkipMultiLineComment
    \/ SkipBreak
    \/ EndOfInput
    \/ PushToken
    \/ ReturnError

\* tokenize_all is synchronous, single-threaded code: once called, its loop
\* runs on until it returns.  Whether the caller calls at all is left open.
\* the source texts of the fair specification
LiveInputs ==
    {Flatten(cs) : cs \in UNION {[1..n -> Chunks] : n \in 0..MaxLiveChunks}}
        \cup ExampleInputs

\* Before the call, the program has no Lexer yet (pc = "start") and then
\* constructs one on its source text: Lexer::new(&source_code).
InitLive ==
    /\ input = <<>>
    /\ position = 0
    /\ tokens = <<>>
    /\ pc = "start"
    /\ result = <<"None">>
    /\ calls = 0
    /\ twin = <<>>
    /\ twinResult = <<"None">>
    /\ lexemes = 0
    /\ expected = <<>>

New ==
    /\ pc = "start"
    /\ \E i \in LiveInputs : input' = i
    /\ position' = 0
    /\ pc' = "new"
    /\ UNCHANGED <<tokens, result, calls, pair>>

NextLive ==
    \/ New
    \/ Next

SpecLive == InitLive /\ [][NextLive]_vars /\ WF_vars(ScanStep)

(***************************************************************************)
(* Pairs of inputs that differ in their trivia only.  input and twin are   *)
(* built from the same lexemes; twin has one space where input has a run   *)
(* of trivia between two lexemes, and no trivia before its first lexeme.   *)
(* Each is then scanned by a Lexer of its own.  Here pc is "start",        *)
(* "lexeme" or "trivia" (what the inputs end with), "trailing" and then    *)
(* "scanned".                                                              *)
(***************************************************************************)
Lexemes ==
    { <<105, 110, 116>>,       \* int
      <<109, 97, 105, 110>>,   \* main
      <<55>>,                  \* 7
      <<40>> }                 \* (

TriviaRuns ==
    { <<32>>,                                 \* space
      <<47, 42, 99, 42, 47>>,                 \* /*c*/
      <<47, 47, 99, 10>>,                     \* //c and its line feed
      <<47, 47, 42, 10>>,                     \* //* and its line feed
      <<10, 47, 42, 47, 47, 42, 47, 160>> }   \* line feed /*//*/ U+00A0

InitTrivia ==
    /\ input = <<>>
    /\ twin = <<>>
    /\ lexemes = 0
    /\ position = 0
    /\ tokens = <<>>
    /\ pc = "start"
    /\ result = <<"None">>
    /\ twinResult = <<"None">>
    /\ calls = 0
    /\ expected = <<>>

\* trivia before the first lexeme of input
LeadingTrivia ==
    /\ pc = "start"
    /\ \E t \in TriviaRuns : input' = t
    /\ pc' = "trivia"
    /\ UNCHANGED <<twin, lexemes, position, tokens, result, twinResult, calls,
                   expected>>

\* the same lexeme at the end of both inputs
AppendLexeme ==
    /\ pc \in {"start", "lexeme", "trivia"}
    /\ lexemes < MaxLexemes
    /\ \E l \in Lexemes : input' = input \o l /\ twin' = twin \o l
    /\ lexemes' = lexemes + 1
    /\ pc' = "lexeme"
    /\ UNCHANGED <<position, tokens, result, twinResult, calls, expected>>

\* a run of trivia behind a lexeme of input, one space behind it in twin
SeparatingTrivia ==
    /\ pc = "lexeme"
    /\ \E t \in TriviaRuns : input' = input \o t
    /\ twin' = twin \o <<32>>
    /\ pc' = "trivia"
    /\ UNCHANGED <<lexemes, position, tokens, result, twinResult, calls,
                   expected>>

\* trivia behind the last lexeme of input, none in twin
TrailingTrivia ==
    /\ pc = "lexeme"
    /\ \E t \in TriviaRuns : input' = input \o t
    /\ pc' = "trailing"
    /\ UNCHANGED <<twin, lexemes, position, tokens, result, twinResult, calls,
                   expected>>

\* Lexer::new(input).tokenize_all() and Lexer::new(twin).tokenize_all()
ScanBoth ==
    /\ pc \in {"lexeme", "trivia", "trailing"}
    /\ result' = Tokenize(input)
    /\ twinResult' = Tokenize(twin)
    /\ pc' = "scanned"
    /\ UNCHANGED <<input, twin, lexemes, position, tokens, calls, expected>>

NextTrivia ==
    \/ LeadingTrivia
    \/ AppendLexeme
    \/ SeparatingTrivia
    \/ TrailingTrivia
    \/ ScanBoth

SpecTrivia == InitTrivia /\ [][NextTrivia]_vars

(***************************************************************************)
(* Source texts written lexeme by lexeme.  main reads a source text and    *)
(* hands it to Lexer::new and tokenize_all.  Here the text is written from *)
(* lexemes whose tokens are known, each behind a separator: nothing, a     *)
(* space or a comment; nothing only where the text does not end in a word  *)
(* character or the lexeme does not begin with one.  pc is "start",        *)
(* "lexeme" and then "scanned".                                            *)
(***************************************************************************)
\* the lexemes and the token each stands for (token.rs)
SourceLexemes ==
    { [text |-> <<105, 110, 116>>,                token |-> KwInt],
      [text |-> <<118, 111, 105, 100>>,           token |-> KwVoid],
      [text |-> <<114, 101, 116, 117, 114, 110>>, token |-> KwReturn],
      [text |-> <<109, 97, 105, 110>>,
       token |-> Identifier(<<109, 97, 105, 110>>)],
      [text |-> <<95, 120, 49>>,
       token |-> Identifier(<<95, 120, 49>>)],
      [text |-> <<48>>,                           token |-> Constant(0)],
      [text |-> <<50, 49, 52, 55, 52, 56, 51, 54, 52, 55>>,
       token |-> Constant(2147483647)],
      [text |-> <<40>>,                           token |-> OpenParen],
      [text |-> <<41>>,                           token |-> CloseParen],
      [text |-> <<123>>,                          token |-> OpenBrace],
      [text |-> <<125>>,                          token |-> CloseBrace],
      [text |-> <<59>>,                           token |-> Semicolon] }

Separators ==
    { <<>>,                       \* nothing
      <<32>>,                     \* space
      <<47, 42, 99, 42, 47>>,     \* /*c*/
      <<47, 47, 99, 10>> }        \* //c and its line feed

\* main () { return 0; }
SourceExample ==
    [text   |-> <<109, 97, 105, 110, 32, 40, 41, 32, 123, 32,
                  114, 101, 116, 117, 114, 110, 32, 48, 59, 32, 125>>,
     tokens |-> <<Identifier(<<109, 97, 105, 110>>), OpenParen, CloseParen,
                  OpenBrace, KwReturn, Constant(0), Semicolon, CloseBrace>>]

InitLexemes ==
    /\ \/ input = <<>> /\ expected = <<>> /\ lexemes = 0
       \/ /\ input = SourceExample.text
          /\ expected = SourceExample.tokens
          /\ lexemes = MaxLexemes
    /\ position = 0
    /\ tokens = <<>>
    /\ pc = "start"
    /\ result = <<"None">>
    /\ calls = 0
    /\ twin = <<>>
    /\ twinResult = <<"None">>

\* a separator and a lexeme written at the end of the source text
WriteLexeme ==
    /\ pc \in {"start", "lexeme"}
    /\ lexemes < MaxLexemes
    /\ \E l \in SourceLexemes, sep \in Separators :
          /\ IF sep = <<>> /\ input # <<>>
             THEN ~(IsWordChar(input[Len(input)]) /\ IsWordChar(l.text[1]))
             ELSE TRUE
          /\ input' = input \o sep \o l.text
          /\ expected' = Append(expected, l.token)
    /\ lexemes' = lexemes + 1
    /\ pc' = "lexeme"
    /\ UNCHANGED <<position, tokens, result, calls, twin, twinResult>>

\* Lexer::new(input).tokenize_all()
ScanSource ==
    /\ pc \in {"start", "lexeme"}
    /\ result' = Tokenize(input)
    /\ pc' = "scanned"
    /\ UNCHANGED <<input, position, tokens, calls, pair>>

NextLexemes ==
    \/ WriteLexeme
    \/ ScanSource

SpecLexemes == InitLexemes /\ [][NextLexemes]_vars

(***************************************************************************)
(* Properties of the scan                                                  *)
(***************************************************************************)
\* tokenize_all returned an error, or a token list
Failed == pc = "returned" /\ result[1] = "Err"

Succeeded == pc = "returned" /\ result[1] = "Ok"

\* the error kinds of LexerError
ErrorKinds == {"UnexpectedCharacter", "InvalidInteger", "NoMatch"}

\* the length of the longest prefix of s whose characters are ASCII digits
DigitRun(s) == Max({n \in 0..Len(s) : \A i \in 1..n : IsAsciiDigit(s[i])})

\* the length of the longest prefix of s whose characters are word characters
WordRun(s) == Max({n \in 0..Len(s) : \A i \in 1..n : IsWordChar(s[i])})

\* C1: tokenize_all returns the complete token list or exactly one error,
\* never a mix.  Ok carries the whole vector and the cursor is at the end of
\* the input; Err carries one error and nothing else, and the cursor has not
\* gone beyond the failing lexeme (pos for an unexpected character, the end
\* of the digit text for an invalid integer).
C1_AllTokensOrOneError ==
    pc = "returned" =>
        /\ DOMAIN result = 1..2
        /\ \/ /\ result[1] = "Ok"
              /\ result[2] = tokens
              /\ position = ByteLen(input)
           \/ /\ result[1] = "Err"
              /\ result[2].kind \in ErrorKinds
              /\ DOMAIN result[2] = {"kind", "char", "value", "pos"}
              /\ position = result[2].pos + ByteLen(result[2].value)

\* an error returned after tokens were collected, with input left behind it
C1_Witness ==
    /\ Failed
    /\ Len(tokens) >= 2
    /\ position + 1 < ByteLen(input)

\* a comment opener with no later closer at the start of s
UnterminatedComment(s) ==
    /\ Len(s) >= 2 /\ s[1] = 47 /\ s[2] = 42
    /\ ~ \E j \in 3..(Len(s) - 1) : s[j] = 42 /\ s[j + 1] = 47

\* C2: an unterminated multi-line comment is not an error: no scan fails at
\* a comment opener that has no later closer (the skipper consumes it
\* through the end of the input and the scan returns Ok).
C2_UnterminatedCommentIsNotAnError ==
    Failed => ~UnterminatedComment(SliceFrom(input, result[2].pos))

\* C3: a digit run at the cursor immediately followed by a word character
\* fails with UnexpectedCharacter{first digit, offset of the first digit};
\* no token is pushed and the cursor does not move.
C3_DigitRunBeforeWordChar ==
    [][(/\ pc = "match"
        /\ DigitRun(Rest) >= 1
        /\ IsWordAt(Rest, DigitRun(Rest) + 1))
       => /\ pc' = "returned"
          /\ result' = <<"Err", UnexpectedCharacter(Rest[1], position)>>
          /\ tokens' = tokens
          /\ position' = position]_vars

\* the scan failed at a run of ten or more digits followed by a word
\* character
C3_Witness ==
    /\ Failed
    /\ result[2].kind = "UnexpectedCharacter"
    /\ IsAsciiDigit(result[2].char)
    /\ DigitRun(SliceFrom(input, result[2].pos)) >= 10

\* a digit text without its leading zeros (one digit is always kept)
RECURSIVE StripZeros(_)
StripZeros(d) == IF Len(d) > 1 /\ d[1] = 48 THEN StripZeros(Tail(d)) ELSE d

\* the digit text d (without leading zeros) denotes at most 2147483647
FitsI32(d) ==
    LET m == <<50, 49, 52, 55, 52, 56, 51, 54, 52, 55>>
    IN  \/ Len(d) < Len(m)
        \/ /\ Len(d) = Len(m)
           /\ \/ d = m
              \/ \E i \in 1..Len(m) : /\ d[i] < m[i]
                                      /\ \A j \in 1..(i - 1) : d[j] = m[j]

RECURSIVE DecimalValue(_)
\* the number a digit text that fits denotes
DecimalValue(d) ==
    IF d = <<>> THEN 0 ELSE 10 * DecimalValue(SubSeq(d, 1, Len(d) - 1)) + (d[Len(d)] - 48)

\* C4: a boundary-terminated digit run at the cursor yields Constant(value)
\* when its value is at most 2147483647 and otherwise InvalidInteger with
\* the digit text verbatim and the byte offset of its first digit.
C4_ConstantOrInvalidInteger ==
    [][(/\ pc = "match"
        /\ DigitRun(Rest) >= 1
        /\ ~IsWordAt(Rest, DigitRun(Rest) + 1))
       => LET text == SubSeq(Rest, 1, DigitRun(Rest))
          IN  IF FitsI32(StripZeros(text))
              THEN /\ pc' = "skip"
                   /\ tokens' = Append(tokens, Constant(DecimalValue(StripZeros(text))))
              ELSE /\ pc' = "returned"
                   /\ result' = <<"Err", InvalidInteger(text, position)>>]_vars

\* an overflowing run of exactly ten digits was rejected away from offset 0
C4_Witness ==
    /\ Failed
    /\ result[2].kind = "InvalidInteger"
    /\ Len(result[2].value) = 10
    /\ result[2].pos > 0

\* the keyword spellings
KeywordSpellings == {KEYWORDS[i][1] : i \in 1..Len(KEYWORDS)}

\* w is longer than a keyword spelling it begins with
BeginsWithKeyword(w) ==
    \E k \in KeywordSpellings : Len(w) > Len(k) /\ SubSeq(w, 1, Len(k)) = k

TokenOfWord(w) ==
    IF w = <<105, 110, 116>> THEN KwInt
    ELSE IF w = <<118, 111, 105, 100>> THEN KwVoid
    ELSE IF w = <<114, 101, 116, 117, 114, 110>> THEN KwReturn
    ELSE Identifier(w)

C7_CursorInvariant ==
    /\ position = 0
    /\ [](0 <= position /\ position <= ByteLen(input))
    /\ [][position' >= position]_vars

\* a second call on a Lexer whose cursor reached the end of a non-empty
\* input
C7_Witness ==
    /\ calls = 2
    /\ pc = "returned"
    /\ position > 0
    /\ position = ByteLen(input)

\* the character c starts no token pattern
StartsNoToken(c) ==
    /\ c \notin {40, 41, 123, 125, 59}
    /\ ~IsIdentStart(c)
    /\ ~IsAsciiDigit(c)

\* C9: at a character that starts no token pattern the recognizer yields
\* UnexpectedCharacter{that character, the byte offset of the cursor} and
\* leaves the cursor where it is.
C9_UnexpectedCharacter ==
    [][(/\ pc = "match"
        /\ Rest # <<>>
        /\ StartsNoToken(Rest[1]))
       => /\ pc' = "returned"
          /\ result' = <<"Err", UnexpectedCharacter(Rest[1],
                                     ByteLen(input) - ByteLen(Rest))>>
          /\ position' = position]_vars

\* an unexpected character of several bytes reported behind tokens and
\* trivia
C9_Witness ==
    /\ Failed
    /\ result[2].kind = "UnexpectedCharacter"
    /\ StartsNoToken(result[2].char)
    /\ len_utf8(result[2].char) > 1
    /\ tokens # <<>>
    /\ result[2].pos = position
    /\ position >= 2

\* C8: trivia elision is transparent.  Two inputs with the same lexemes that
\* differ only in the non-empty runs of trivia between lexemes, or in trivia
\* before the first or behind the last lexeme, give the same outcome and,
\* when the scan succeeds, the same token list.  (Any two such inputs agree
\* with the twin that has single spaces, and so with each other.)
C8_TriviaTransparent ==
    pc = "scanned" =>
        /\ result[1] = twinResult[1]
        /\ result[1] = "Ok" => result[2] = twinResult[2]

\* int/*c*/main and int main both gave KwInt, Identifier(main)
C8_Witness ==
    /\ pc = "scanned"
    /\ input = <<105, 110, 116, 47, 42, 99, 42, 47, 109, 97, 105, 110>>
    /\ twin = <<105, 110, 116, 32, 109, 97, 105, 110>>
    /\ result = <<"Ok", <<KwInt, Identifier(<<109, 97, 105, 110>>)>> >>
    /\ twinResult = result

\* C10: NoMatch is unreachable: every error tokenize_all returns is
\* UnexpectedCharacter or InvalidInteger.
C10_NoMatchUnreachable ==
    result[1] = "Err" => result[2].kind \in {"UnexpectedCharacter", "InvalidInteger"}

\* a scan that ended on an error with the cursor at the end of the input
C10_Witness ==
    /\ Failed
    /\ position = ByteLen(input)


\* C11: a scan that has returned is terminal.  Once tokenize_all has been
\* called a second time on the same Lexer (calls >= 2) no step moves the
\* cursor, pushes a token or replaces the outcome the first call returned.
C11_TerminalNoReentry ==
    [][calls >= 2 => /\ position' = position
                     /\ result' = result
                     /\ Len(tokens') <= Len(tokens)]_vars


\* the length of the longest prefix of s made of ASCII letters, ASCII digits
\* and underscores
AsciiWordRun(s) == Max({n \in 0..Len(s) : \A i \in 1..n : IsAsciiWord(s[i])})

\* C12: identifier rules are ASCII-only.  Every Identifier pushed starts with
\* an ASCII letter or underscore and holds only ASCII letters, ASCII digits
\* and underscores; and a word or digit run at the cursor that is followed by
\* a non-ASCII character is boundary-terminated: the recognizer yields its
\* token and stops in front of the non-ASCII character.
C12_AsciiOnlyIdentifiers ==
    [][/\ \A i \in 1..Len(tokens') :
              tokens'[i].type = "Identifier" =>
                  /\ IsIdentStart(tokens'[i].text[1])
                  /\ \A j \in 1..Len(tokens'[i].text) :
                         IsAsciiWord(tokens'[i].text[j])
       /\ (/\ pc = "match"
           /\ AsciiWordRun(Rest) > 0
           /\ AsciiWordRun(Rest) < Len(Rest)
           /\ Rest[AsciiWordRun(Rest) + 1] > 127
           /\ (IsIdentStart(Rest[1]) \/ AsciiWordRun(Rest) <= 9))
          => /\ pc' = "skip"
             /\ Len(tokens') = Len(tokens) + 1
             /\ position' = position + AsciiWordRun(Rest)]_vars


\* C14: every scan terminates.  A call of tokenize_all that is under way
\* eventually returns; every iteration of the skipper loop that continues and
\* every recognizer step that yields a token moves the cursor forward by at
\* least one byte; every other step leaves the skipper loop for the
\* recognizer or returns from the call.
C14_EveryScanTerminates ==
    /\ [](pc \in {"skip", "match"} => <>(pc = "returned"))
    /\ [][(pc \in {"skip", "match"} /\ pc' = "skip")
          => position' >= position + 1]_vars
    /\ [][(pc \in {"skip", "match"} /\ pc' # "skip")
          => \/ pc = "skip" /\ pc' = "match" /\ position' = position
             \/ pc' = "returned" /\ result'[1] \in {"Ok", "Err"}]_vars

\* a scan that returned Ok after skipper iterations of all three kinds and
\* nine recognizer steps
C14_Witness ==
    /\ Succeeded
    /\ calls = 1
    /\ Len(result[2]) = 9
    /\ \E i \in 1..(Len(input) - 1) : input[i] = 47 /\ input[i + 1] = 42
    /\ \E i \in 1..(Len(input) - 1) : input[i] = 47 /\ input[i + 1] = 47
    /\ position = ByteLen(input)


\* C15: a source text written from valid lexemes, in which adjacent word and
\* digit lexemes are separated by trivia, scans to Ok with exactly the token
\* of each lexeme, in source order; punctuation needs no separator.
C15_OneTokenPerLexeme ==
    pc = "scanned" => result = <<"Ok", expected>>

\* the scan of main () { return 0; } and its eight tokens
C15_Witness ==
    /\ pc = "scanned"
    /\ input = SourceExample.text
    /\ result = <<"Ok", <<Identifier(<<109, 97, 105, 110>>), OpenParen,
                         CloseParen, OpenBrace, KwReturn, Constant(0),
                         Semicolon, CloseBrace>> >>


\* C16: the cursor is on a codepoint boundary of the input in every state (no
\* slice panics), and an UnexpectedCharacter error holds the byte offset at
\* which a character of the input begins and that whole character.
C16_CodepointBoundary ==
    /\ is_char_boundary(input, position)
    /\ pc # "panicked"
    /\ (Failed /\ result[2].kind = "UnexpectedCharacter") =>
           /\ is_char_boundary(input, result[2].pos)
           /\ SliceFrom(input, result[2].pos) # <<>>
           /\ SliceFrom(input, result[2].pos)[1] = result[2].char

\* the three-byte character U+20AC reported at offset 3, behind an identifier
\* that ends in the two-byte character U+00E9
C16_Witness ==
    /\ Failed
    /\ input = <<120, 233, 8364>>
    /\ result[2].kind = "UnexpectedCharacter"
    /\ result[2].char = 8364
    /\ len_utf8(result[2].char) = 3
    /\ result[2].pos = 3
    /\ position = 3


\* the slice s begins with the opener /*
OpensComment(s) == Len(s) >= 2 /\ s[1] = 47 /\ s[2] = 42

\* the places j >= 3 of s at which a closer */ begins: behind the opener
Closers(s) == {j \in 3..(Len(s) - 1) : s[j] = 42 /\ s[j + 1] = 47}

\* /* a /* b */ c */
Nested == <<47, 42, 32, 97, 32, 47, 42, 32, 98, 32, 42, 47, 32, 99, 32, 42, 47>>

\* C17: a multi-line comment ends at the first */ behind its opener and does
\* not nest.  A skipper iteration at /* with a closer behind it moves the
\* cursor just past the first closer; /*/ is not a complete comment (the
\* cursor does not stop behind it); /* a /* b */ c */ is skipped through the
\* first */ only, c is scanned and the trailing * at offset 15 is the
\* UnexpectedCharacter; /**/ is a complete comment.
C17_CommentsDoNotNest ==
    [][/\ (pc = "skip" /\ OpensComment(Rest) /\ Closers(Rest) # {})
          => /\ pc' = "skip"
             /\ position' = position
                    + ByteLen(SubSeq(Rest, 1, Min(Closers(Rest)) + 1))
       /\ (/\ pc = "skip" /\ OpensComment(Rest) /\ Closers(Rest) = {}
           /\ Len(Rest) > 3 /\ Rest[3] = 47)
          => position' # position + 3
       /\ (input = Nested /\ calls = 1 /\ pc' = "returned")
          => /\ result' = <<"Err", UnexpectedCharacter(42, 15)>>
             /\ tokens' = <<Identifier(<<99>>)>>
       /\ (input = <<47, 42, 42, 47>> /\ calls = 1 /\ pc' = "returned")
          => result' = <<"Ok", <<>> >>]_vars

\* the scan of /* a /* b */ c */ has failed at the trailing *
C17_Witness ==
    /\ Failed
    /\ input = Nested
    /\ calls = 1
    /\ position = 15
    /\ result[2].kind = "UnexpectedCharacter"
    /\ result[2].char = 42


\* the slice s begins with something the skipper consumes: a whitespace
\* character, // or a terminated /* ... */ comment
BeginsWithTrivia(s) ==
    /\ s # <<>>
    /\ \/ IsWhitespace(s[1])
       \/ Len(s) >= 2 /\ s[1] = 47 /\ s[2] = 47
       \/ OpensComment(s) /\ Closers(s) # {}

\* C18: skipper postcondition.  When the skipper has returned (pc = "match")
\* the cursor is at the end of the input or the rest does not begin with
\* trivia, so one call consumes any mixed run; an iteration at // stops at
\* the line feed that ends the comment (or at the end of the input) and has
\* skipped no line feed, and the line feed is whitespace of the next
\* iteration; and no step of the skipper changes anything but position.
C18_SkipperPostcondition ==
    [][/\ pc' = "match" => (position' = ByteLen(input') \/ ~BeginsWithTrivia(Rest'))
       /\ (pc = "skip" /\ Len(Rest) >= 2 /\ Rest[1] = 47 /\ Rest[2] = 47)
          => /\ pc' = "skip"
             /\ position' > position
             /\ Rest' = <<>> \/ Rest'[1] = 10
             /\ \A i \in 1..(Len(Rest) - Len(Rest')) : Rest[i] # 10
             /\ Rest' # <<>> => IsWhitespace(Rest'[1])
       /\ pc = "skip"
          => /\ pc' \in {"skip", "match"}
             /\ pc' = "match" => position' = position
             /\ input' = input
             /\ tokens' = tokens
             /\ result' = result
             /\ calls' = calls]_vars

\* the skipper has returned in front of { after a mixed run: two spaces and
\* a block comment earlier, then a line comment and its line feed
C18_Witness ==
    /\ pc = "match"
    /\ Len(tokens) = 4
    /\ Rest # <<>>
    /\ Rest[1] = 123
    /\ position = 24
    /\ \E i \in 1..(Len(input) - 1) : input[i] = 47 /\ input[i + 1] = 47


\* the token of a punctuation character
PunctuationToken(c) ==
    CASE c = 40  -> OpenParen
      [] c = 41  -> CloseParen
      [] c = 123 -> OpenBrace
      [] c = 125 -> CloseBrace
      [] c = 59  -> Semicolon

\* C19: a recognizer step at a character of the input yields exactly one
\* token or one error.  The token is a punctuation token exactly at a
\* punctuation character, the one of that character, and the cursor moves on
\* by 1; it is an identifier or keyword only at a letter or underscore, and
\* the cursor moves on by the bytes of the whole word run; it is a Constant
\* only at a digit, and the cursor moves on by the whole digit run.
C19_RecognizerStep ==
    [][(pc = "match" /\ Rest # <<>>)
       => /\ \/ /\ pc' = "skip"
                /\ Len(tokens') = Len(tokens) + 1
                /\ SubSeq(tokens', 1, Len(tokens)) = tokens
                /\ result' = result
             \/ /\ pc' = "returned"
                /\ tokens' = tokens
                /\ result'[1] = "Err"
          /\ Rest[1] \in {40, 41, 123, 125, 59}
             => /\ pc' = "skip"
                /\ tokens' = Append(tokens, PunctuationToken(Rest[1]))
                /\ position' = position + 1
          /\ (pc' = "skip" /\ Rest[1] \notin {40, 41, 123, 125, 59})
             => LET t == tokens'[Len(tokens')]
                IN  IF t.type = "Constant"
                    THEN /\ IsAsciiDigit(Rest[1])
                         /\ position' = position + DigitRun(Rest)
                    ELSE /\ t.type \in {"Identifier", "KwInt", "KwVoid",
                                        "KwReturn"}
                         /\ IsIdentStart(Rest[1])
                         /\ position' = position
                                + ByteLen(SubSeq(Rest, 1, WordRun(Rest)))
                         /\ t.type = "Identifier"
                            => t.text = SubSeq(Rest, 1, WordRun(Rest))]_vars

\* main () { return 0; } scanned by the steps of the recognizer: an
\* identifier, a keyword, a constant and each of the five punctuation marks
C19_Witness ==
    /\ Succeeded
    /\ calls = 1
    /\ input = <<109, 97, 105, 110, 32, 40, 41, 32, 123, 32,
                 114, 101, 116, 117, 114, 110, 32, 48, 59, 32, 125>>
    /\ Len(tokens) = 8
    /\ position = 21


\* what a fresh Lexer returns for the text rest, with the offset of an error
\* counted from the start of a text in which rest begins at byte offset off
ScanOfRest(rest, off) ==
    LET r == Tokenize(rest)
    IN  IF r[1] = "Ok" THEN r
        ELSE <<"Err", [r[2] EXCEPT !.pos = @ + off]>>

\* C20: InvalidInteger is returned with the cursor behind the whole digit
\* run: position = pos + the length of the digit text.  A call of
\* tokenize_all that follows a call which returned InvalidInteger does not
\* return that error again: it returns what a scan of the text behind the
\* digit run returns.
C20_InvalidIntegerAdvances ==
    [][/\ (pc = "match" /\ pc' = "returned" /\ result'[1] = "Err"
                        /\ result'[2].kind = "InvalidInteger")
          => /\ result'[2].pos = position
             /\ Len(result'[2].value) = DigitRun(Rest)
             /\ position' = result'[2].pos + Len(result'[2].value)
             /\ position' > position
       /\ (pc \in {"skip", "match"} /\ pc' = "returned" /\ calls >= 2
                        /\ result[1] = "Err"
                        /\ result[2].kind = "InvalidInteger")
          => LET off == result[2].pos + Len(result[2].value)
             IN  /\ result' # result
                 /\ result' = ScanOfRest(SliceFrom(input, off), off)]_vars

\* 21474836477( : the first call returned InvalidInteger, the second call
\* has returned the token behind the digit run
C20_Witness ==
    /\ calls = 2
    /\ Succeeded
    /\ input = <<50, 49, 52, 55, 52, 56, 51, 54, 52, 55, 55, 40>>
    /\ result = <<"Ok", <<OpenParen>> >>
    /\ position = 12


\* C21: tokenize_all is not idempotent on one Lexer.  A call that returns Ok
\* leaves the cursor at the end of the input, and a call that follows it
\* returns Ok with an empty token list and leaves the cursor there; a call
\* that returns UnexpectedCharacter leaves the cursor at its pos, and a call
\* that follows it returns that same error and leaves the cursor there.
C21_NotIdempotent ==
    [][/\ (pc' = "returned" /\ result'[1] = "Ok")
          => position' = ByteLen(input)
       /\ (pc' = "returned" /\ result'[1] = "Err"
                            /\ result'[2].kind = "UnexpectedCharacter")
          => position' = result'[2].pos
       /\ (pc \in {"skip", "match"} /\ pc' = "returned" /\ calls >= 2
                                    /\ result[1] = "Ok")
          => /\ result' = <<"Ok", <<>> >>
             /\ position' = position
       /\ (pc \in {"skip", "match"} /\ pc' = "returned" /\ calls >= 2
                                    /\ result[1] = "Err"
                                    /\ result[2].kind = "UnexpectedCharacter")
          => /\ result' = result
             /\ position' = position]_vars

\* return 7; scanned twice: the second call has returned Ok with no token
\* where the first returned three
C21_Witness ==
    /\ calls = 2
    /\ Succeeded
    /\ input = <<114, 101, 116, 117, 114, 110, 32, 55, 59>>
    /\ Tokenize(input) = <<"Ok", <<KwReturn, Constant(7), Semicolon>> >>
    /\ result = <<"Ok", <<>> >>
    /\ position = 9


\* 2147483648
Overflowing == <<50, 49, 52, 55, 52, 56, 51, 54, 52, 56>>

\* C22: every Constant pushed holds a value in 0..2147483647.  A - at the
\* cursor is never the sign of a constant: it is the UnexpectedCharacter.
\* The overflow test is on the value, not on the number of digits: a
\* boundary-terminated run of more than ten digits whose value is at most
\* 2147483647 yields Constant of that value, and a run that is 2147483648
\* behind any number of zeros yields InvalidInteger with the run verbatim.
C22_ConstantRange ==
    [][/\ \A i \in 1..Len(tokens') :
              tokens'[i].type = "Constant" =>
                  tokens'[i].value \in 0..2147483647
       /\ (pc = "match" /\ Rest # <<>> /\ Rest[1] = 45)
          => /\ pc' = "returned"
             /\ result' = <<"Err", UnexpectedCharacter(45, position)>>
             /\ position' = position
       /\ (/\ pc = "match"
           /\ DigitRun(Rest) > 10
           /\ ~IsWordAt(Rest, DigitRun(Rest) + 1)
           /\ FitsI32(StripZeros(SubSeq(Rest, 1, DigitRun(Rest)))))
          => /\ pc' = "skip"
             /\ tokens' = Append(tokens, Constant(DecimalValue(
                              StripZeros(SubSeq(Rest, 1, DigitRun(Rest))))))
       /\ (/\ pc = "match"
           /\ DigitRun(Rest) >= 10
           /\ ~IsWordAt(Rest, DigitRun(Rest) + 1)
           /\ StripZeros(SubSeq(Rest, 1, DigitRun(Rest))) = Overflowing)
          => /\ pc' = "returned"
             /\ result' = <<"Err", InvalidInteger(
                              SubSeq(Rest, 1, DigitRun(Rest)), position)>>]_vars

\* 00000000000007, fourteen digits, has been scanned to Constant(7)
C22_Witness ==
    /\ Succeeded
    /\ calls = 1
    /\ input = <<48, 48, 48, 48, 48, 48, 48, 48, 48, 48, 48, 48, 48, 55>>
    /\ result = <<"Ok", <<Constant(7)>> >>

====
